---------------------------- MODULE Spec2Model ----------------------------
(***************************************************************************)
(* Model of watch_plates.py: one process that, run after run, reads the    *)
(* list of plate combinations, loads the state artifact, queries the       *)
(* remote service for every combination with bounded retry, records the    *)
(* latest observation, saves the artifact and posts one notification for   *)
(* the combinations that became available.                                 *)
(*                                                                         *)
(* Spec is that process with the environment at its worst: the process    *)
(* may be killed at any step and the artifact replaced between runs.       *)
(* SeqSpec is run after run with nothing interfering, OverlapSpec has a    *)
(* second invocation of main() start while the first is running, and       *)
(* PlatesSpec applies load_plates alone to bounded input lists.            *)
(*                                                                         *)
(* Text is modelled as sequences: a combination or an input line is the    *)
(* sequence of its code points, a reason is a sequence of message parts.   *)
(* Python values carry a type tag t, JSON documents a tag j.               *)
(***************************************************************************)
EXTENDS Integers, Sequences, FiniteSets, TLC

(* ------------------------------ bounds --------------------------------- *)

\* number of runs of main() explored on one state artifact
MaxRuns == 2

\* number of lines of an input list given to load_plates
MaxLines == 3

\* number of runs of main() in a sequence of runs that nothing interrupts
MaxSeqRuns == 3

\* number of invocations of main() when two may run at the same time
MaxOverlapRuns == 2

(* --------------------------- program constants ------------------------- *)

\* a retry count that is one short
RETRIES_short == 3 - 1

RETRIES == 3

(* ----------------------------- Python values --------------------------- *)

PyNone == [t |-> "none"]

PyBool(b) == [t |-> "bool", v |-> b]

PyStr(s) == [t |-> "str", v |-> s]

PyList(s) == [t |-> "list", v |-> s]

PyDict(f) == [t |-> "dict", v |-> f]

EmptyDict == PyDict([k \in {} |-> PyNone])

\* Python truthiness, as used by the `or` of lines 71 and 73
Truthy(x) ==
    CASE x.t = "none" -> FALSE
      [] x.t = "bool" -> x.v
      [] x.t = "str"  -> x.v # <<>>
      [] x.t = "list" -> x.v # <<>>
      [] x.t = "dict" -> DOMAIN x.v # {}

\* x or y
PyOr(x, y) == IF Truthy(x) THEN x ELSE y

\* only a dict has .get; on anything else the call raises AttributeError
HasGet(x) == x.t = "dict"

\* d.get(k, default)
Get(d, k, default) == IF k \in DOMAIN d.v THEN d.v[k] ELSE default

(* ------------------------------- text ---------------------------------- *)

\* str.strip() removes these from both ends
IsSpace(c) == c \in {9, 10, 11, 12, 13, 28, 29, 30, 31, 32, 133, 160}

RECURSIVE LStrip(_)
LStrip(s) == IF s # <<>> /\ IsSpace(Head(s)) THEN LStrip(Tail(s)) ELSE s

RECURSIVE RStrip(_)
RStrip(s) ==
    IF s # <<>> /\ IsSpace(s[Len(s)]) THEN RStrip(SubSeq(s, 1, Len(s) - 1)) ELSE s

Strip(s) == RStrip(LStrip(s))

\* str.upper() on the letters the model uses (ASCII)
UpperChar(c) == IF c >= 97 /\ c <= 122 THEN c - 32 ELSE c

Upper(s) == [i \in 1..Len(s) |-> UpperChar(s[i])]

\* s.replace(" ", "")
IsNotBlank(c) == c # 32

RemoveBlanks(s) == SelectSeq(s, IsNotBlank)

\* Python's order on str: lexicographic by code point
RECURSIVE StrLess(_, _)
StrLess(a, b) ==
    IF b = <<>> THEN FALSE
    ELSE IF a = <<>> THEN TRUE
    ELSE IF Head(a) # Head(b) THEN Head(a) < Head(b)
    ELSE StrLess(Tail(a), Tail(b))

\* sorted(S) for a set of strings
RECURSIVE Sorted(_)
Sorted(S) ==
    IF S = {} THEN <<>>
    ELSE LET m == CHOOSE x \in S : \A y \in S : y = x \/ StrLess(x, y)
         IN  <<m>> \o Sorted(S \ {m})

Range(s) == {s[i] : i \in 1..Len(s)}

\* sep.join(items)
RECURSIVE Join(_, _)
Join(sep, items) ==
    IF items = <<>> THEN <<>>
    ELSE IF Len(items) = 1 THEN items[1]
    ELSE items[1] \o sep \o Join(sep, Tail(items))

(* ---------------------------- load_plates ------------------------------ *)

NormalizeLine(line) == RemoveBlanks(Upper(Strip(line)))

RECURSIVE CollectPlates(_)
CollectPlates(ls) ==
    IF ls = <<>> THEN <<>>
    ELSE LET p == NormalizeLine(Head(ls))
         IN  (IF p # <<>> THEN <<p>> ELSE <<>>) \o CollectPlates(Tail(ls))

\* the entries in the order of the lines, without the set and the sort
load_plates_as_read(ls) == CollectPlates(ls)

load_plates(ls) == Sorted(Range(CollectPlates(ls)))

\* the two combinations of the model, "AB123" and "ZZ999"
AB123 == <<65, 66, 49, 50, 51>>

ZZ999 == <<90, 90, 57, 57, 57>>

\* the input list artifact of a run: unreadable, or its lines
\*   ""                      (blank line)
\*   "AB123"  " ab123 "      (the same combination, two spellings)
\*   "ZZ999"  "zz 999"
PlatesFiles ==
    { [readable |-> FALSE, lines |-> <<>>],
      [readable |-> TRUE,  lines |-> << <<>>, <<32>> >>],
      [readable |-> TRUE,  lines |-> << AB123 >>],
      [readable |-> TRUE,  lines |-> << <<122, 122, 32, 57, 57, 57>>,
                                        <<32, 97, 98, 49, 50, 51, 32>>,
                                        <<>>,
                                        AB123 >>] }

(* ------------------------------- JSON ---------------------------------- *)

JInvalid == [j |-> "invalid"]

JNull == [j |-> "null"]

JBool(b) == [j |-> IF b THEN "true" ELSE "false"]

JString(s) == [j |-> "string", s |-> s]

JArray(s) == [j |-> "array", items |-> s]

\* an object whose keys are field names
JRecord(r) == [j |-> "record", fields |-> r]

\* an object keyed by combination: its members in the order of the text
JObject(ms) == [j |-> "object", members |-> ms]

\* a dump that writes None as false
RECURSIVE DumpValue_none_as_false(_)
DumpValue_none_as_false(x) ==
    CASE x.t = "none" -> JBool(FALSE)
      [] x.t = "bool" -> JBool(x.v)
      [] x.t = "str"  -> JString(x.v)
      [] x.t = "list" ->
            JArray([i \in 1..Len(x.v) |-> DumpValue_none_as_false(x.v[i])])
      [] x.t = "dict" ->
            JRecord([f \in DOMAIN x.v |-> DumpValue_none_as_false(x.v[f])])

\* json.dump of a value that is not keyed by combination
RECURSIVE DumpValue(_)
DumpValue(x) ==
    CASE x.t = "none" -> JNull
      [] x.t = "bool" -> JBool(x.v)
      [] x.t = "str"  -> JString(x.v)
      [] x.t = "list" -> JArray([i \in 1..Len(x.v) |-> DumpValue(x.v[i])])
      [] x.t = "dict" -> JRecord([f \in DOMAIN x.v |-> DumpValue(x.v[f])])

\* json.dump(state, f, indent=2, sort_keys=True)
Dump(x) ==
    IF x.t = "dict"
    THEN LET keys == Sorted(DOMAIN x.v)
         IN  JObject([i \in 1..Len(keys) |->
                        [key |-> keys[i], value |-> DumpValue(x.v[keys[i]])]])
    ELSE DumpValue(x)

\* json.load / r.json() of a document that is not keyed by combination
RECURSIVE LoadValue(_)
LoadValue(d) ==
    CASE d.j = "null"   -> PyNone
      [] d.j = "true"   -> PyBool(TRUE)
      [] d.j = "false"  -> PyBool(FALSE)
      [] d.j = "string" -> PyStr(d.s)
      [] d.j = "array"  -> PyList([i \in 1..Len(d.items) |-> LoadValue(d.items[i])])
      [] d.j = "record" -> PyDict([f \in DOMAIN d.fields |-> LoadValue(d.fields[f])])

\* the last member with key k, as the JSON decoder keeps it
LastMember(ms, k) ==
    ms[CHOOSE i \in 1..Len(ms) :
         /\ ms[i].key = k
         /\ \A n \in 1..Len(ms) : ms[n].key = k => n <= i]

Load(d) ==
    IF d.j = "object"
    THEN PyDict([k \in {d.members[i].key : i \in 1..Len(d.members)} |->
                    LoadValue(LastMember(d.members, k).value)])
    ELSE LoadValue(d)

(* --------------------------- state artifact ---------------------------- *)

Absent == [kind |-> "absent"]

Text(d) == [kind |-> "text", doc |-> d]

\* what open(STATE_FILE, "w") leaves until the dump is complete
Truncated == Text(JInvalid)

\* the exception load_state() catches on artifact f, if any
LoadFault(f) ==
    IF f.kind = "absent" THEN "FileNotFoundError"
    ELSE IF f.doc.j = "invalid" THEN "JSONDecodeError"
    ELSE "none"

\* a load that ignores the artifact
load_state_ignored(f) == EmptyDict

\* load_state(): the parsed artifact, {} when it is absent or not JSON
load_state(f) == IF LoadFault(f) # "none" THEN EmptyDict ELSE Load(f.doc)

\* save_state(state), once the write is complete
save_state(st) == Text(Dump(st))

\* characters of a str given by its parts
RECURSIVE Chars(_)
Chars(parts) == IF parts = <<>> THEN 0 ELSE Len(Head(parts)) + Chars(Tail(parts))

\* characters of a time in the format "%Y-%m-%d %H:%M:%S UTC"
StampChars == 23

RECURSIVE Sum(_)
Sum(f) ==
    IF DOMAIN f = {} THEN 0
    ELSE LET x == CHOOSE y \in DOMAIN f : TRUE
         IN  f[x] + Sum([y \in DOMAIN f \ {x} |-> f[y]])

\* characters of a JSON array or object written with indent=2 at depth k,
\* given the characters of each of its items
Block(k, sizes) ==
    IF DOMAIN sizes = {} THEN 2
    ELSE 2 + Sum([i \in DOMAIN sizes |-> k + 2 + sizes[i] + 2]) - 2 + 1 + k + 1

\* characters json.dump(..., indent=2) writes for document d at depth k; text
\* that is not JSON has the length it was left with, none after open("w")
RECURSIVE TextSize(_, _)
TextSize(d, k) ==
    CASE d.j = "invalid" -> IF "size" \in DOMAIN d THEN d.size ELSE 0
      [] d.j = "null"    -> 4
      [] d.j = "true"    -> 4
      [] d.j = "false"   -> 5
      [] d.j = "string"  -> 2 + Chars(d.s)
      [] d.j = "array"   ->
            Block(k, [i \in 1..Len(d.items) |-> TextSize(d.items[i], k + 2)])
      [] d.j = "record"  ->
            Block(k, [f \in DOMAIN d.fields |->
                        2 + Len(f) + 2
                        + (IF f = "last_seen" THEN 2 + StampChars
                           ELSE TextSize(d.fields[f], k + 2))])
      [] d.j = "object"  ->
            Block(k, [i \in 1..Len(d.members) |->
                        2 + Len(d.members[i].key) + 2
                        + TextSize(d.members[i].value, k + 2)])

\* the artifact after a process that opened it with "w" writes the text new
\* from position 0 and closes: what the file held beyond the end of the new
\* text stays, and the result is then not a JSON document
WriteOver(old, new) ==
    IF old.kind = "text" /\ TextSize(old.doc, 0) > TextSize(new.doc, 0)
    THEN Text([j |-> "invalid", size |-> TextSize(old.doc, 0)])
    ELSE new

\* artifacts a run may find that no run of the program left there:
\* none, text that is not JSON, the JSON document [], and {"AB123": null}
ForeignArtifacts ==
    { Absent,
      Text(JInvalid),
      Text(JArray(<<>>)),
      Text(JObject(<< [key |-> AB123, value |-> JNull] >>)) }


(* ---------------------------- remote service --------------------------- *)

\* bodies the lookup endpoint may answer with:
\*   text that is not JSON, null, [null], {}, {"Data": null}, {"Data": "x"},
\*   {"Data": {"Available": true}},
\*   {"Data": {"Available": false, "Reason": "Taken"}},
\*   {"Data": {"Available": "yes"}}, {"Data": {"Reason": "Taken"}}
Bodies ==
    { JInvalid,
      JNull,
      JArray(<<JNull>>),
      JRecord([f \in {} |-> JNull]),
      JRecord([Data |-> JNull]),
      JRecord([Data |-> JString(<<"x">>)]),
      JRecord([Data |-> JRecord([Available |-> JBool(TRUE)])]),
      JRecord([Data |-> JRecord([Available |-> JBool(FALSE),
                                 Reason |-> JString(<<"Taken">>)])]),
      JRecord([Data |-> JRecord([Available |-> JString(<<"yes">>)])]),
      JRecord([Data |-> JRecord([Reason |-> JString(<<"Taken">>)])]) }

\* what one session.get can do: raise, or answer with a status and a body
Outcomes ==
    { [kind |-> "raise", err |-> <<"timed out">>] }
    \cup { [kind |-> "response", status |-> 500, body |-> JInvalid] }
    \cup { [kind |-> "response", status |-> 200, body |-> b] : b \in Bodies }

\* r.raise_for_status() raises HTTPError for 4xx and 5xx
RaisesForStatus(o) == o.status >= 400 /\ o.status < 600

\* what the service did, as seen on the wire: a success status with a body
\* that is JSON ("parsed"), or anything else ("fault")
Wire(o) ==
    IF o.kind = "response" /\ o.status >= 200 /\ o.status < 300
       /\ o.body.j # "invalid"
    THEN "parsed" ELSE "fault"

(* -------------------------- fetch_plate_status ------------------------- *)

Returned(a, r) == [outcome |-> "return", available |-> a, reason |-> r]

Caught(e) == [outcome |-> "except", err |-> e]

Uncaught(ty, where) == [outcome |-> "raise", type |-> ty, at |-> where]

\* lines 71-77, for a parsed payload
Classify(payload) ==
    LET p == PyOr(payload, EmptyDict) IN
    IF ~HasGet(p) THEN Uncaught("AttributeError", "fetch_plate_status:71")
    ELSE
    LET data == PyOr(Get(p, "Data", PyNone), EmptyDict) IN
    IF ~HasGet(data) THEN Uncaught("AttributeError", "fetch_plate_status:72")
    ELSE
    LET available == Get(data, "Available", PyNone)
        reason    == PyOr(Get(data, "Reason", PyNone), PyStr(<<>>))
    IN  IF available.t = "bool"
        THEN Returned(available, reason)
        ELSE Returned(PyNone, PyStr(<<"PARSE_ERROR">>))

\* one pass through the try block of lines 66-80 for the outcome o of the get
TryBody(o) ==
    IF o.kind = "raise" THEN Caught(o.err)
    ELSE IF RaisesForStatus(o) THEN Caught(<<"500 Server Error">>)
    ELSE IF o.body.j = "invalid" THEN Caught(<<"Expecting value">>)
    ELSE Classify(LoadValue(o.body))

\* line 82
Exhausted(e) == Returned(PyNone, PyStr(<<"ERROR: ">> \o e))

(* -------------------------------- main --------------------------------- *)

\* now_str() at clock reading n
now_str(n) == PyStr(<<n, "UTC">>)

StatusRecord(a, r, seen) ==
    PyDict([available |-> a, reason |-> r, last_seen |-> seen])

\* a store that keeps a record only when the fetch determined the availability
Store_determined(st, plate, rec) ==
    IF rec.v.available = PyNone THEN st ELSE PyDict((plate :> rec) @@ st.v)

\* a store rebuilt from the combinations of this run alone
Store_afresh(st, plate, rec) == PyDict(plate :> rec)

\* a store that leaves the record alone when the observation is the one it
\* already holds
Store_when_changed(st, plate, rec) ==
    IF /\ plate \in DOMAIN st.v
       /\ Get(st.v[plate], "available", PyNone) = rec.v.available
       /\ Get(st.v[plate], "reason", PyNone) = rec.v.reason
    THEN st
    ELSE PyDict((plate :> rec) @@ st.v)

\* line 105
Store(st, plate, rec) == PyDict((plate :> rec) @@ st.v)

\* line 107
Changed(a, r, prev_avail, prev_reason) == (a # prev_avail) \/ (r # prev_reason)

\* a level trigger: fires on every observation of true
NewlyAvailable_level(a, prev_avail) == a = PyBool(TRUE)

\* a trigger on the transition false -> true only
NewlyAvailable_from_false(a, prev_avail) ==
    a = PyBool(TRUE) /\ prev_avail = PyBool(FALSE)

\* line 110
NewlyAvailable(a, prev_avail) == a = PyBool(TRUE) /\ prev_avail # PyBool(TRUE)

\* a delay only after a combination whose fetch gave a definite result
SleepsAfter_definite(n, a) == IF a = PyNone THEN n ELSE n + 1

\* line 115: one time.sleep(REQUEST_DELAY_SECONDS) per combination
SleepsAfter(n, a) == n + 1

\* f"{plate} (check mark)"
Entry(plate) == plate \o <<32, 9989>>

\* "(siren) **KiwiPlates now AVAILABLE:** "
AlertPrefix ==
    <<128680, 32, 42, 42, 75, 105, 119, 105, 80, 108, 97, 116, 101, 115, 32,
      110, 111, 119, 32, 65, 86, 65, 73, 76, 65, 66, 76, 69, 58, 42, 42, 32>>

\* an alert that names only the combination found last
Message_latest(entries) ==
    AlertPrefix \o (IF entries = <<>> THEN <<>> ELSE entries[Len(entries)])

\* line 120
Message(entries) == AlertPrefix \o Join(<<44, 32>>, entries)

\* an order that notifies before it saves
Follows_notify_first(stage) ==
    CASE stage = "loop"   -> "notify"
      [] stage = "notify" -> "save"
      [] stage = "save"   -> "done"

\* the order of the steps of main() after the loop: save, notify, summary
Follows(stage) ==
    CASE stage = "loop"   -> "save"
      [] stage = "save"   -> "notify"
      [] stage = "notify" -> "done"

\* values of DISCORD_WEBHOOK_URL after strip(): unset, or a webhook
WebhookUrls == {<<>>, <<"https://discord/webhook">>}

\* what a requests.post to the webhook can do
Deliveries == {"delivered", "rejected", "raise"}

NoExc == [type |-> "none", at |-> "none"]

VARIABLES
    pc,               \* position of the process
    clock,            \* wall clock, advanced from run to run
    file,             \* the state artifact on disk
    webhook,          \* DISCORD_WEBHOOK_URL, known once line 52 has read it
    plates,           \* the working set (line 86)
    state,            \* the in-memory store (line 87)
    loaded,           \* what load_state() returned at line 87
    load_fault,       \* the exception load_state() caught at line 87, if any
    run_time,         \* line 97
    changes,          \* line 94
    newly_available,  \* line 95
    idx,              \* position of the loop of line 98 in plates
    attempt,          \* loop variable of line 65
    last_err,         \* line 64
    available,        \* line 99
    reason,           \* line 99
    calls,            \* session.get calls made for the current plate
    requests,         \* session.get calls made in this run
    results,          \* what fetch_plate_status returned, per plate, this run
    posts,            \* requests.post calls made in this run
    stdout,           \* lines printed in this run
    exc,              \* what ended the run, if it did not complete
    completed,        \* the combinations that the last run that completed
                      \* left in the artifact as available
    lines,            \* the lines load_plates() read (line 28)
    sleeps,           \* time.sleep calls made in this run (line 115)
    notified,         \* per combination, over the runs on this artifact:
                      \* was it ever in the alert of a run that completed,
                      \* and has a run persisted a record that is not true
                      \* for it since its last alert
    saved_by,         \* run_time of the process whose dump reached the
                      \* artifact last
    other             \* a second process running main(), while it is not
                      \* the one taking steps

vars == <<pc, clock, file, webhook, plates, state, loaded, load_fault, run_time, changes,
          newly_available, idx, attempt, last_err, available, reason, calls,
          requests, results, posts, stdout, exc, completed, lines, sleeps,
          notified, saved_by, other>>

NoResults == [k \in {} |-> PyNone]

NeverNotified == [alerted |-> {}, lapsed |-> {}]

\* no second process
NoProcess == [pc |-> "none"]

\* no process has run yet: every variable but the lines of the input list
NothingRun ==
    /\ pc = "idle"
    /\ clock = 0
    /\ file = Absent
    /\ webhook = <<>>
    /\ plates = <<>>
    /\ state = EmptyDict
    /\ loaded = EmptyDict
    /\ load_fault = "none"
    /\ run_time = now_str(0)
    /\ changes = <<>>
    /\ newly_available = <<>>
    /\ idx = 1
    /\ attempt = 1
    /\ last_err = <<>>
    /\ available = PyNone
    /\ reason = PyStr(<<>>)
    /\ calls = <<>>
    /\ requests = 0
    /\ results = NoResults
    /\ posts = <<>>
    /\ stdout = <<>>
    /\ exc = NoExc
    /\ completed = {}
    /\ sleeps = 0
    /\ notified = NeverNotified
    /\ saved_by = now_str(0)
    /\ other = NoProcess

Init == NothingRun /\ lines = <<>>

Stopped == pc \in {"idle", "done", "aborted", "killed"}

Running == pc \in {"fetch", "process", "save", "write", "notify"}

\* the process ends without reaching the end of main(): its memory is gone,
\* the artifact stays as it is
Dies(how, ty, where) ==
    /\ pc' = how
    /\ exc' = [type |-> ty, at |-> where]
    /\ webhook' = <<>>
    /\ plates' = <<>>
    /\ state' = EmptyDict
    /\ changes' = <<>>
    /\ newly_available' = <<>>
    /\ idx' = 1
    /\ attempt' = 1
    /\ last_err' = <<>>
    /\ available' = PyNone
    /\ reason' = PyStr(<<>>)
    /\ results' = NoResults
    /\ posts' = <<>>
    /\ stdout' = <<>>
    /\ lines' = <<>>
    /\ UNCHANGED <<clock, file, loaded, load_fault, run_time, completed,
                   sleeps, notified, saved_by, other>>

\* lines 86-97 in a new process
Begin(pf) ==
    /\ clock' = clock + 1
    /\ run_time' = now_str(clock')
    /\ webhook' = <<>>
    /\ changes' = <<>>
    /\ newly_available' = <<>>
    /\ idx' = 1
    /\ attempt' = 1
    /\ last_err' = <<>>
    /\ available' = PyNone
    /\ reason' = PyStr(<<>>)
    /\ calls' = <<>>
    /\ requests' = 0
    /\ results' = NoResults
    /\ posts' = <<>>
    /\ stdout' = <<>>
    /\ sleeps' = 0
    /\ IF ~pf.readable
       THEN /\ pc' = "aborted"
            /\ exc' = [type |-> "FileNotFoundError", at |-> "load_plates:26"]
            /\ lines' = <<>>
            /\ plates' = <<>>
            /\ state' = EmptyDict
            /\ loaded' = EmptyDict
            /\ load_fault' = "none"
       ELSE /\ lines' = pf.lines
            /\ plates' = load_plates(lines')
            /\ state' = load_state(file)
            /\ loaded' = load_state(file)
            /\ load_fault' = LoadFault(file)
            /\ exc' = NoExc
            /\ pc' = IF plates' = <<>> THEN Follows("loop") ELSE "fetch"
    /\ UNCHANGED <<file, completed, notified, saved_by>>

\* a new process starts main() once the one before it has ended
StartRun(pf) ==
    /\ Stopped
    /\ Begin(pf)
    /\ UNCHANGED other

\* one iteration of the loop of lines 65-80, and line 82 after the last one
Attempt(o) ==
    /\ pc = "fetch"
    /\ LET r == TryBody(o)
           final == IF r.outcome = "except" /\ attempt = RETRIES
                    THEN Exhausted(r.err) ELSE r
       IN
       /\ requests' = requests + 1
       /\ calls' = Append(calls, Wire(o))
       /\ IF final.outcome = "raise"
          THEN Dies("aborted", final.type, final.at)
          ELSE
            /\ last_err' = IF r.outcome = "except" THEN r.err ELSE last_err
            /\ IF final.outcome = "return"
               THEN /\ available' = final.available
                    /\ reason' = final.reason
                    /\ results' = (plates[idx] :>
                                      [available |-> final.available,
                                       reason |-> final.reason]) @@ results
                    /\ pc' = "process"
                    /\ UNCHANGED attempt
               ELSE /\ attempt' = attempt + 1
                    /\ UNCHANGED <<available, reason, results, pc>>
            /\ UNCHANGED <<clock, file, webhook, plates, state, loaded,
                           load_fault, run_time, changes, newly_available, idx,
                           posts, stdout, exc, completed, lines, sleeps,
                           notified, saved_by, other>>

\* lines 101-115 for the combination just fetched
Process ==
    /\ pc = "process"
    /\ LET plate == plates[idx] IN
       IF ~HasGet(state)
       THEN Dies("aborted", "AttributeError", "main:101")
            /\ UNCHANGED <<calls, requests>>
       ELSE
       LET prev == Get(state, plate, EmptyDict) IN
       IF ~HasGet(prev)
       THEN Dies("aborted", "AttributeError", "main:102")
            /\ UNCHANGED <<calls, requests>>
       ELSE
       LET prev_avail  == Get(prev, "available", PyNone)
           prev_reason == Get(prev, "reason", PyNone)
       IN
       /\ state' = Store(state, plate, StatusRecord(available, reason, run_time))
       /\ changes' = IF Changed(available, reason, prev_avail, prev_reason)
                     THEN Append(changes, [plate |-> plate,
                                           from |-> <<prev_avail, prev_reason>>,
                                           to |-> <<available, reason>>])
                     ELSE changes
       /\ newly_available' = IF NewlyAvailable(available, prev_avail)
                             THEN Append(newly_available, Entry(plate))
                             ELSE newly_available
       /\ idx' = idx + 1
       /\ attempt' = 1
       /\ last_err' = <<>>
       /\ calls' = <<>>
       /\ sleeps' = SleepsAfter(sleeps, available)
       /\ pc' = IF idx = Len(plates) THEN Follows("loop") ELSE "fetch"
       /\ UNCHANGED <<clock, file, webhook, plates, loaded, load_fault, run_time,
                      available, reason, requests, results, posts, stdout, exc,
                      completed, lines, notified, saved_by, other>>

\* the combinations named by the entries of an alert
Alerted(ps, entries) == {c \in Range(ps) : Entry(c) \in Range(entries)}

\* the notification history once a run with working set ps and fetch
\* results res has persisted its records
Persisted(n, ps, res) ==
    [alerted |-> n.alerted,
     lapsed  |-> n.lapsed
                 \cup {c \in Range(ps) : res[c].available # PyBool(TRUE)}]

\* the notification history once a run with working set ps has completed
\* with the alert entries
Noted(n, ps, entries) ==
    [alerted |-> n.alerted \cup Alerted(ps, entries),
     lapsed  |-> n.lapsed \ Alerted(ps, entries)]

\* line 47: open(STATE_FILE, "w") truncates the artifact
SaveOpen ==
    /\ pc = "save"
    /\ file' = Truncated
    /\ pc' = "write"
    /\ UNCHANGED <<clock, webhook, plates, state, loaded, load_fault, run_time,
                   changes, newly_available, idx, attempt, last_err, available,
                   reason, calls, requests, results, posts, stdout, exc,
                   completed, lines, sleeps, notified, saved_by, other>>

\* line 48: the dump is written, from the start of the file, over what the
\* file holds by then, and the file is closed
SaveWrite ==
    /\ pc = "write"
    /\ file' = WriteOver(file, save_state(state))
    /\ saved_by' = run_time
    /\ notified' = Persisted(notified, plates, results)
    /\ pc' = Follows("save")
    /\ UNCHANGED <<clock, webhook, plates, state, loaded, load_fault, run_time,
                   changes, newly_available, idx, attempt, last_err, available,
                   reason, calls, requests, results, posts, stdout, exc,
                   completed, lines, sleeps, other>>

\* send_discord(message), lines 51-58: the calls made and the lines printed
send_discord(url, message, delivery) ==
    IF url = <<>>
    THEN [posts |-> <<>>, printed |-> << [line |-> "discord_skipped"] >>]
    ELSE [posts |-> << [content |-> message, result |-> delivery] >>,
          printed |-> IF delivery = "raise"
                      THEN << [line |-> "discord_failed"] >>
                      ELSE <<>>]

\* the combinations a mapping holds as available
AvailableIn(st) ==
    IF ~HasGet(st) THEN {}
    ELSE {k \in DOMAIN st.v :
            HasGet(st.v[k]) /\ Get(st.v[k], "available", PyNone) = PyBool(TRUE)}

\* lines 119-128, with url the value the process has for DISCORD_WEBHOOK_URL
Notify(url, delivery) ==
    /\ pc = "notify"
    /\ webhook' = url
    /\ LET msg  == Message(newly_available)
           sent == IF newly_available # <<>>
                   THEN send_discord(url, msg, delivery)
                   ELSE [posts |-> <<>>, printed |-> <<>>]
       IN
       /\ posts' = posts \o sent.posts
       /\ stdout' = stdout \o sent.printed
                    \o (IF newly_available # <<>>
                        THEN << [line |-> "alert", text |-> msg] >> ELSE <<>>)
                    \o << [line |-> "summary", time |-> run_time,
                           checked |-> Len(plates),
                           new |-> Len(newly_available)] >>
    /\ pc' = Follows("notify")
    /\ completed' = IF pc' = "done" THEN AvailableIn(load_state(file))
                     ELSE completed
    /\ notified' = IF pc' = "done"
                    THEN Noted(notified, plates, newly_available)
                    ELSE notified
    /\ UNCHANGED <<clock, file, plates, state, loaded, load_fault, run_time, changes,
                   newly_available, idx, attempt, last_err, available, reason,
                   calls, requests, results, exc, lines, sleeps, saved_by, other>>

\* the process is terminated from outside
Kill ==
    /\ Running
    /\ Dies("killed", "killed", pc)
    /\ UNCHANGED <<calls, requests>>

\* between runs the artifact is removed or replaced from outside
Tamper(a) ==
    /\ Stopped
    /\ clock < MaxRuns
    /\ file # a
    /\ file' = a
    /\ pc' = "idle"
    /\ webhook' = <<>>
    /\ plates' = <<>>
    /\ state' = EmptyDict
    /\ loaded' = EmptyDict
    /\ load_fault' = "none"
    /\ changes' = <<>>
    /\ newly_available' = <<>>
    /\ idx' = 1
    /\ attempt' = 1
    /\ last_err' = <<>>
    /\ available' = PyNone
    /\ reason' = PyStr(<<>>)
    /\ calls' = <<>>
    /\ requests' = 0
    /\ results' = NoResults
    /\ posts' = <<>>
    /\ stdout' = <<>>
    /\ exc' = NoExc
    /\ lines' = <<>>
    /\ sleeps' = 0
    /\ saved_by' = now_str(0)
    /\ notified' = NeverNotified
    /\ UNCHANGED <<clock, run_time, completed, other>>

Next ==
    \/ \E pf \in PlatesFiles : clock < MaxRuns /\ StartRun(pf)
    \/ \E a \in ForeignArtifacts : Tamper(a)
    \/ \E o \in Outcomes : Attempt(o)
    \/ Process
    \/ SaveOpen
    \/ SaveWrite
    \/ \E url \in WebhookUrls, d \in Deliveries : Notify(url, d)
    \/ Kill

Spec == Init /\ [][Next]_vars

(* ------------------- runs in sequence, left undisturbed ---------------- *)

\* the input lists that hold at most one combination
SeqPlatesFiles == {pf \in PlatesFiles : Len(load_plates(pf.lines)) <= 1}

\* runs of main() one after the other on one artifact that nothing else
\* touches, none of them terminated from outside
NextSeq ==
    \/ \E pf \in SeqPlatesFiles : clock < MaxSeqRuns /\ StartRun(pf)
    \/ \E o \in Outcomes : Attempt(o)
    \/ Process
    \/ SaveOpen
    \/ SaveWrite
    \/ \E url \in WebhookUrls, d \in Deliveries : Notify(url, d)

SeqSpec == Init /\ [][NextSeq]_vars

(* ------------------------ two invocations at once --------------------- *)

\* the memory of the process taking steps
Context ==
    [pc |-> pc, webhook |-> webhook, plates |-> plates, state |-> state,
     loaded |-> loaded, load_fault |-> load_fault, run_time |-> run_time,
     changes |-> changes, newly_available |-> newly_available, idx |-> idx,
     attempt |-> attempt, last_err |-> last_err, available |-> available,
     reason |-> reason, calls |-> calls, requests |-> requests,
     results |-> results, posts |-> posts, stdout |-> stdout, exc |-> exc,
     lines |-> lines, sleeps |-> sleeps]

\* main() is invoked while an earlier invocation is still running
Overlap(pf) ==
    /\ Running
    /\ other = NoProcess
    /\ other' = Context
    /\ Begin(pf)

\* the scheduler lets the other process take the next steps
Switch ==
    /\ other.pc \in {"fetch", "process", "save", "write", "notify"}
    /\ other' = Context
    /\ pc' = other.pc
    /\ webhook' = other.webhook
    /\ plates' = other.plates
    /\ state' = other.state
    /\ loaded' = other.loaded
    /\ load_fault' = other.load_fault
    /\ run_time' = other.run_time
    /\ changes' = other.changes
    /\ newly_available' = other.newly_available
    /\ idx' = other.idx
    /\ attempt' = other.attempt
    /\ last_err' = other.last_err
    /\ available' = other.available
    /\ reason' = other.reason
    /\ calls' = other.calls
    /\ requests' = other.requests
    /\ results' = other.results
    /\ posts' = other.posts
    /\ stdout' = other.stdout
    /\ exc' = other.exc
    /\ lines' = other.lines
    /\ sleeps' = other.sleeps
    /\ UNCHANGED <<clock, file, completed, notified, saved_by>>

\* the input lists that hold a combination
OverlapPlatesFiles == {pf \in PlatesFiles : load_plates(pf.lines) # <<>>}

\* the service times out, or answers available, or taken
OverlapOutcomes ==
    {o \in Outcomes :
        \/ o.kind = "raise"
        \/ /\ o.kind = "response"
           /\ o.status = 200
           /\ o.body \in
                 { JRecord([Data |-> JRecord([Available |-> JBool(TRUE)])]),
                   JRecord([Data |-> JRecord([Available |-> JBool(FALSE),
                                              Reason |-> JString(<<"Taken">>)])]) }}

NextOverlap ==
    \/ \E pf \in OverlapPlatesFiles : clock < MaxOverlapRuns /\ StartRun(pf)
    \/ \E pf \in OverlapPlatesFiles : clock < MaxOverlapRuns /\ Overlap(pf)
    \/ Switch
    \/ \E o \in OverlapOutcomes : Attempt(o)
    \/ Process
    \/ SaveOpen
    \/ SaveWrite
    \/ \E url \in WebhookUrls, d \in Deliveries : Notify(url, d)

OverlapSpec == Init /\ [][NextOverlap]_vars

(* ------------------------- load_plates on its own ---------------------- *)

\* raw lines of an input list, as iterating the file yields them:
\*   "\n"  "AB123\n"  " ab 123 \n"  "zz999" (a last line without newline)
\*   "ab\t123\n" (a tab inside)  "\tZZ999 \n"
RawLines ==
    { <<10>>,
      AB123 \o <<10>>,
      <<32, 97, 98, 32, 49, 50, 51, 32, 10>>,
      <<122, 122, 57, 57, 57>>,
      <<97, 98, 9, 49, 50, 51, 10>>,
      <<9>> \o ZZ999 \o <<32, 10>> }

LineInputs == UNION {[1..n -> RawLines] : n \in 0..MaxLines}

\* the same lines in another order
Reorderings(s) ==
    {[i \in 1..Len(s) |-> s[f[i]]] :
        f \in {g \in [1..Len(s) -> 1..Len(s)] :
                 \A i, k \in 1..Len(s) : g[i] = g[k] => i = k}}

InitPlates == NothingRun /\ lines \in LineInputs

besides_load_plates ==
    <<clock, file, webhook, state, loaded, load_fault, run_time, changes,
      newly_available, idx, attempt, last_err, available, reason, calls,
      requests, results, posts, stdout, exc, completed, sleeps, notified,
      saved_by, other>>

\* load_plates() on the lines of the input list
LoadPlates ==
    /\ pc = "idle"
    /\ plates' = load_plates(lines)
    /\ pc' = "loaded"
    /\ UNCHANGED <<lines, besides_load_plates>>

\* load_plates() on an input list whose lines are the entries it returned
LoadPlatesAgain ==
    /\ pc = "loaded"
    /\ lines' = plates
    /\ plates' = load_plates(lines')
    /\ pc' = "renormalized"
    /\ UNCHANGED besides_load_plates

\* load_plates() on an input list with the same lines in the order q
LoadPlatesShuffled(q) ==
    /\ pc = "loaded"
    /\ lines' = q
    /\ plates' = load_plates(lines')
    /\ pc' = "shuffled"
    /\ UNCHANGED besides_load_plates

NextPlates ==
    \/ LoadPlates
    \/ LoadPlatesAgain
    \/ \E q \in Reorderings(lines) : LoadPlatesShuffled(q)

PlatesSpec == InitPlates /\ [][NextPlates]_vars

(* ------------------------------ properties ----------------------------- *)

\* C1. Edge-trigger law: a combination the change loop has processed is in
\* the notification list iff its fetched availability is true and its prior
\* stored availability (true, false, unknown, or no record) is not true.
EdgeTriggerLaw ==
    \A i \in 1..Len(plates) :
        i < idx =>
            LET c == plates[i]
                p == Get(Get(loaded, c, EmptyDict), "available", PyNone)
                a == results[c].available
            IN  (Entry(c) \in Range(newly_available))
                    <=> (a = PyBool(TRUE) /\ p # PyBool(TRUE))

\* the end-to-end scenario: prior {AB123: false}, ZZ999 never seen; AB123 is
\* fetched as true and ZZ999 times out; exactly AB123 is notified
EdgeTriggerScenario ==
    /\ pc = "done"
    /\ plates = <<AB123, ZZ999>>
    /\ DOMAIN loaded.v = {AB123}
    /\ Get(loaded.v[AB123], "available", PyNone) = PyBool(FALSE)
    /\ results[AB123].available = PyBool(TRUE)
    /\ results[ZZ999] = [available |-> PyNone,
                         reason |-> PyStr(<<"ERROR: ", "timed out">>)]
    /\ newly_available = <<Entry(AB123)>>

\* C2. State persistence is total: when a run has completed, the artifact
\* holds exactly one record for every combination of the working set, with
\* the availability and reason fetched in this run; a combination whose fetch
\* failed is recorded with available = null and a diagnostic reason.
PersistenceIsTotal ==
    pc = "done" =>
        \A i \in 1..Len(plates) :
            /\ file.kind = "text"
            /\ file.doc.j = "object"
            /\ LET c  == plates[i]
                   at == {n \in 1..Len(file.doc.members) :
                            file.doc.members[n].key = c}
               IN  /\ Cardinality(at) = 1
                   /\ \A n \in at :
                        LET rec == file.doc.members[n].value IN
                        /\ rec.j = "record"
                        /\ DOMAIN rec.fields = {"available", "reason", "last_seen"}
                        /\ rec.fields.reason = JString(results[c].reason.v)
                        /\ IF results[c].available = PyNone
                           THEN /\ rec.fields.available = JNull
                                /\ \/ rec.fields.reason.s = <<"PARSE_ERROR">>
                                   \/ /\ Len(rec.fields.reason.s) = 2
                                      /\ rec.fields.reason.s[1] = "ERROR: "
                           ELSE rec.fields.available = JBool(results[c].available.v)

\* a completed run in which both fetches failed, one on a parse fault and one
\* on exhausted retries, and both combinations have their record
FailedFetchesPersisted ==
    /\ pc = "done"
    /\ plates = <<AB123, ZZ999>>
    /\ results[AB123].reason = PyStr(<<"PARSE_ERROR">>)
    /\ results[ZZ999].reason = PyStr(<<"ERROR: ", "500 Server Error">>)
    /\ Len(file.doc.members) = 2

\* C3. Retry policy: a fetch whose every attempt ended in a transport fault
\* has made exactly 3 requests when it returns unknown; a response that was
\* parsed is the last request of its fetch, which ends at that attempt (by
\* returning, or with the exception of C4), so no further attempt follows it.
RetryPolicy ==
    /\ Len(calls) <= 3
    /\ \A i \in 1..Len(calls) :
           calls[i] = "parsed" => (i = Len(calls) /\ pc # "fetch")
    /\ pc = "fetch" => (Len(calls) < 3 /\ attempt = Len(calls) + 1)
    /\ pc = "process" =>
           /\ Len(calls) >= 1
           /\ (\A i \in 1..Len(calls) : calls[i] = "fault") =>
                  /\ Len(calls) = 3
                  /\ available = PyNone
                  /\ reason.v[1] = "ERROR: "

\* the fetch of AB123 met a parse fault on its first and only request, the
\* fetch of ZZ999 has just given up after three transport faults
RetryExhaustedAfterThree ==
    /\ pc = "process"
    /\ plates = <<AB123, ZZ999>>
    /\ idx = 2
    /\ results[AB123].reason = PyStr(<<"PARSE_ERROR">>)
    /\ calls = <<"fault", "fault", "fault">>
    /\ requests = 4
    /\ available = PyNone

\* C4. Result classification: once a response has been parsed the fetch
\* returns, either the boolean availability flag of the response or
\* (unknown, "PARSE_ERROR"); after the last transport fault it returns
\* (unknown, "ERROR: " followed by the last failure).
ResultClassification ==
    /\ (/\ pc \in {"process", "aborted"}
        /\ exc.at \notin {"main:101", "main:102"}
        /\ calls # <<>>
        /\ calls[Len(calls)] = "parsed") =>
           /\ pc = "process"
           /\ \/ available.t = "bool"
              \/ available = PyNone /\ reason = PyStr(<<"PARSE_ERROR">>)
    /\ (pc = "process" /\ calls[Len(calls)] = "fault") =>
           /\ available = PyNone
           /\ reason = PyStr(<<"ERROR: ">> \o last_err)

\* C5. Fetch failures never abort the run: whatever the remote query of a
\* combination does, the run is not ended by an exception from the fetch, so
\* it goes on to the remaining combinations, the save and the summary.
FetchOutcomeNeverAbortsRun ==
    ~(/\ pc = "aborted"
      /\ requests > 0
      /\ exc.at \in {"fetch_plate_status:71", "fetch_plate_status:72"})

\* a mapping of combination to record
IsStateMapping(x) == HasGet(x) /\ \A k \in DOMAIN x.v : HasGet(x.v[k])

\* C6. A corrupt or missing state artifact never aborts a run and is
\* equivalent to an empty prior state: no run is ended by an exception raised
\* on the loaded state, and a run whose artifact was absent or was not a
\* mapping of combination to record notifies exactly the combinations fetched
\* as available, as a run from the empty mapping does.
CorruptStateNeverAborts ==
    /\ pc = "aborted" => exc.at \notin {"main:101", "main:102"}
    /\ (pc = "done" /\ (load_fault # "none" \/ ~IsStateMapping(loaded))) =>
           \A i \in 1..Len(plates) :
               (Entry(plates[i]) \in Range(newly_available))
                   <=> (results[plates[i]].available = PyBool(TRUE))

\* C7. Persistence precedes notification and is independent of it: whenever
\* the sink has been called or anything has been printed after the loop, the
\* artifact already holds the dump of the run's state; when the run is done
\* it holds that dump whatever the delivery did; and a combination that the
\* run loaded as available and fetched as available is not notified again.
PersistenceBeforeNotification ==
    /\ (posts # <<>> \/ stdout # <<>>) => file = save_state(state)
    /\ pc = "done" => file = save_state(state)
    /\ \A i \in 1..Len(plates) :
           (/\ i < idx
            /\ Get(Get(loaded, plates[i], EmptyDict), "available", PyNone)
                   = PyBool(TRUE)
            /\ results[plates[i]].available = PyBool(TRUE))
               => Entry(plates[i]) \notin Range(newly_available)

\* the delivery of the notification for AB123 failed, and the artifact holds
\* AB123 as available
DeliveryFailedStatePersisted ==
    /\ pc = "done"
    /\ newly_available = <<Entry(AB123)>>
    /\ Len(posts) = 1
    /\ posts[1].result = "raise"
    /\ file = save_state(state)
    /\ AB123 \in AvailableIn(load_state(file))

\* C8. An interrupted run is equivalent to no run for the state store: after
\* the process was terminated during the fetches, the delays or the write,
\* the next run loads from the artifact the mapping of combination to record
\* that this run loaded.
InterruptedRunLeavesStore ==
    (/\ pc = "killed"
     /\ exc.at \in {"fetch", "process", "save", "write"}
     /\ IsStateMapping(loaded))
        => load_state(file) = loaded

\* C9, as claimed. No false transitions on recovery: a run that substituted
\* the empty baseline for a missing or corrupt artifact does not notify a
\* combination that the last completed run left in the artifact as available.
NoFalseTransitionOnRecovery ==
    (Running /\ load_fault # "none") =>
        \A c \in completed : Entry(c) \notin Range(newly_available)

\* C9, amended. A run that substituted the empty baseline notifies exactly
\* the combinations it fetched as available, whatever an earlier run had
\* persisted for them.
RecoveryNotifiesEveryAvailable ==
    load_fault # "none" =>
        \A i \in 1..Len(plates) :
            i < idx =>
                ((Entry(plates[i]) \in Range(newly_available))
                    <=> (results[plates[i]].available = PyBool(TRUE)))

\* the artifact was lost after a run that persisted AB123 as available; the
\* next run finds AB123 still available and notifies it again
RecoveryNotifiesAgain ==
    /\ pc = "notify"
    /\ load_fault # "none"
    /\ AB123 \in completed
    /\ newly_available = <<Entry(AB123)>>

\* C10. Termination: a run makes at most 3 requests per combination of its
\* working set, and once its working set is read it is not ended before the
\* save and the summary by anything but an external termination.
RunReachesSummary ==
    /\ attempt <= 3
    /\ (Running \/ pc = "done") => requests <= 3 * Len(plates)
    /\ pc = "aborted" => exc.at = "load_plates:26"

\* C11. Aggregate notification: a run calls the notification sink at most
\* once; a run that completed has called it iff a sink is configured and at
\* least one combination triggered the policy (fetched true, prior not
\* true), and the one message (posted, and printed) is the alert prefix
\* followed by exactly the triggering combinations, each once, in the order
\* of the working set.
AggregateNotification ==
    /\ Len(posts) <= 1
    /\ pc = "done" =>
          LET trig == SelectSeq(plates,
                        LAMBDA c :
                          /\ results[c].available = PyBool(TRUE)
                          /\ Get(Get(loaded, c, EmptyDict), "available", PyNone)
                                # PyBool(TRUE))
              text == AlertPrefix
                      \o Join(<<44, 32>>, [i \in 1..Len(trig) |-> Entry(trig[i])])
              alerts == SelectSeq(stdout, LAMBDA l : l.line = "alert")
          IN  /\ (posts # <<>>) <=> (trig # <<>> /\ webhook # <<>>)
              /\ posts # <<>> => posts[1].content = text
              /\ alerts = IF trig # <<>>
                          THEN << [line |-> "alert", text |-> text] >>
                          ELSE <<>>

\* C11 witness: a run completed in which both combinations triggered the
\* policy and one call to the sink carried both.
OneMessageForTwo ==
    /\ pc = "done"
    /\ Len(posts) = 1
    /\ Len(newly_available) = 2
    /\ posts[1].content = AlertPrefix \o Entry(AB123) \o <<44, 32>> \o Entry(ZZ999)

\* C12. Canonical working set: whatever the raw lines, load_plates returns a
\* strictly ascending sequence whose entries are non-empty, upper-case and
\* free of every whitespace character.
CanonicalWorkingSet ==
    pc = "loaded" =>
        /\ \A i \in 1..Len(plates) - 1 : StrLess(plates[i], plates[i + 1])
        /\ \A i \in 1..Len(plates) :
              /\ plates[i] # <<>>
              /\ \A n \in 1..Len(plates[i]) :
                    /\ ~(plates[i][n] >= 97 /\ plates[i][n] <= 122)
                    /\ ~IsSpace(plates[i][n])

\* C13. Normalization is idempotent and order-independent: load_plates on its
\* own output, and load_plates on any permutation of the same lines, return
\* the sequence load_plates returned the first time.
NormalizationIdempotentAnyOrder ==
    [][(pc = "loaded" /\ pc' \in {"renormalized", "shuffled"})
          => plates' = plates]_vars

\* C13 witness: the lines "zz999", " ab 123 ", "zz999" reordered were loaded
\* again, and so was the output AB123, ZZ999.
ReorderedAndReloaded ==
    \/ /\ pc = "shuffled"
       /\ lines = << <<122, 122, 57, 57, 57>>,
                     <<32, 97, 98, 32, 49, 50, 51, 32, 10>>,
                     <<122, 122, 57, 57, 57>> >>
       /\ plates = <<AB123, ZZ999>>
    \/ /\ pc = "renormalized"
       /\ lines = <<AB123, ZZ999>>
       /\ plates = <<AB123, ZZ999>>

\* C14. State round-trip: when save_state has written the in-memory mapping,
\* load_state of the artifact returns a mapping with the same keys and, for
\* every key, the same available (true, false or null), reason and
\* last_seen; the text lists the keys in ascending order, whatever order
\* they entered the mapping in.
StateRoundTrip ==
    [][(pc = "write" /\ pc' = Follows("save"))
          => /\ load_state(file') = state
             /\ file'.doc.j = "object" =>
                   \A i \in 1..Len(file'.doc.members) - 1 :
                       StrLess(file'.doc.members[i].key,
                               file'.doc.members[i + 1].key)]_vars

\* C14 witness: a mapping with a null record for AB123 and a true record for
\* ZZ999 has been saved and loads back as it was.
RoundTripOfNullAndTrue ==
    /\ pc = "notify"
    /\ HasGet(state)
    /\ DOMAIN state.v = {AB123, ZZ999}
    /\ state.v[AB123].v.available = PyNone
    /\ state.v[ZZ999].v.available = PyBool(TRUE)
    /\ load_state(file) = state

\* C15. Latest observation, replaced wholesale: the record of every
\* combination the run has processed is exactly the availability and the
\* reason fetched in this run with the run's one timestamp, whether or not
\* they differ from the record loaded; after the run completed the artifact
\* holds these same records, so all of them share one last_seen.
LatestObservationWholesale ==
    \A i \in 1..Len(plates) :
        i < idx =>
            LET c == plates[i]
                rec == StatusRecord(results[c].available, results[c].reason,
                                    run_time)
            IN  /\ state.v[c] = rec
                /\ pc = "done" => load_state(file).v[c] = rec

\* C15 witness: the second run fetched for AB123 the availability and reason
\* already on record from the first run, and the record it left carries the
\* second run's timestamp.
UnchangedObservationRestamped ==
    /\ pc = "done"
    /\ clock = 2
    /\ plates = <<AB123>>
    /\ AB123 \in DOMAIN loaded.v
    /\ loaded.v[AB123].v.last_seen = now_str(1)
    /\ loaded.v[AB123].v.available = results[AB123].available
    /\ loaded.v[AB123].v.reason = results[AB123].reason
    /\ load_state(file).v[AB123].v.last_seen = now_str(2)

\* C16. Pacing: the step that processes a combination is followed by exactly
\* one delay, whether the fetch gave true, false or unknown; a request to the
\* service, first attempt or retry, adds no delay; so a run that completed
\* has observed as many delays as its working set has combinations.
Pacing ==
    [][/\ (pc = "process" /\ pc' \in {"fetch", "save"}) => sleeps' = sleeps + 1
       /\ requests' = requests + 1 => sleeps' = sleeps
       /\ pc' = "done" => sleeps' = Len(plates')]_vars

\* C16 witness: a run completed with two delays, one after AB123 whose three
\* attempts all failed and one after ZZ999 whose fetch gave a definite result.
TwoDelaysForTwoCombinations ==
    /\ pc = "done"
    /\ plates = <<AB123, ZZ999>>
    /\ results[AB123].available = PyNone
    /\ results[ZZ999].available # PyNone
    /\ requests >= 4
    /\ sleeps = 2

\* C17. Frame of a run on stale entries: a record loaded for a combination
\* that is not in the working set of the run stays as loaded in the
\* in-memory store all through the run and, once the run has saved, is in
\* the artifact unchanged; the run neither removes nor modifies it.
StaleEntriesCarried ==
    (HasGet(loaded) /\ (Running \/ pc = "done")) =>
        \A k \in DOMAIN loaded.v \ Range(plates) :
            /\ k \in DOMAIN state.v
            /\ state.v[k] = loaded.v[k]
            /\ pc \in {"notify", "done"} =>
                  /\ k \in DOMAIN load_state(file).v
                  /\ load_state(file).v[k] = loaded.v[k]

\* C17 witness: the second run checked AB123 only and completed; the record
\* the first run wrote for ZZ999 is in the artifact with the first run's
\* timestamp, next to AB123's record with the second run's.
StaleRecordSurvivedRun ==
    /\ pc = "done"
    /\ clock = 2
    /\ plates = <<AB123>>
    /\ ZZ999 \in DOMAIN loaded.v
    /\ load_state(file).v[ZZ999] = loaded.v[ZZ999]
    /\ load_state(file).v[ZZ999].v.last_seen = now_str(1)
    /\ load_state(file).v[AB123].v.last_seen = now_str(2)

\* C18. Notification count over runs: in a sequence of runs on one artifact,
\* a combination in the alert of a run was in the alert of an earlier
\* completed run only if a run since then persisted a record for it that is
\* not true; and a combination fetched as true whose record, left by the run
\* before, is unknown because that fetch failed, is in the alert again.
RenotifiedOnlyAfterLapse ==
    pc = "notify" =>
        /\ \A c \in Alerted(plates, newly_available) :
              c \in notified.alerted => c \in notified.lapsed
        /\ \A c \in Range(plates) :
              (/\ c \in DOMAIN loaded.v
               /\ loaded.v[c].v.available = PyNone
               /\ results[c].available = PyBool(TRUE))
                  => c \in Alerted(plates, newly_available)

\* C18 witness: AB123 was in the alert of an earlier run, the run before this
\* one exhausted its retries and persisted unknown for it, and this third
\* run, fetching true, has it in its alert again.
RenotifiedAfterFailedFetch ==
    /\ pc = "notify"
    /\ clock = 3
    /\ AB123 \in notified.alerted
    /\ AB123 \in notified.lapsed
    /\ loaded.v[AB123].v.available = PyNone
    /\ loaded.v[AB123].v.reason = PyStr(<<"ERROR: ", "timed out">>)
    /\ loaded.v[AB123].v.last_seen = now_str(2)
    /\ AB123 \in Alerted(plates, newly_available)

\* C19. Overlapping runs are last-writer-wins: once two invocations that
\* overlapped on the artifact have both finished, the artifact is exactly
\* the dump of the in-memory mapping of the invocation whose save came last.
LastWriterWins ==
    (pc = "done" /\ other.pc = "done") =>
        file = save_state(IF saved_by = run_time THEN state ELSE other.state)

=============================================================================
